---- MODULE Spec2Model ----
(***************************************************************************)
(* Model of the monthly business-hours calendar generator                  *)
(* (src/generate_calendar.py).  Rows and columns are 0-based as in the     *)
(* source; TLA+ sequences are 1-based, so week r of the source is          *)
(* weeks[r + 1] and column c of a week is week[c + 1].  A grid cell is the *)
(* tuple <<day, month_offset>> of the source.                              *)
(***************************************************************************)
EXTENDS Integers, Sequences, FiniteSets, TLC

VARIABLES pc, year, month, config, weeks, show_prev_weekends,
          show_next_weekends, row_height, row_idx, event_idx, drawn, boxes,
          bottom, output, event, positions, text, segments

vars == <<pc, year, month, config, weeks, show_prev_weekends,
          show_next_weekends, row_height, row_idx, event_idx, drawn, boxes,
          bottom, output, event, positions, text, segments>>

\* ------------------------------------------------------------------------
\* Bounds of the model
\* ------------------------------------------------------------------------
MinYear == 2000
MaxYear == 2027
MaxTextLen == 3

Years == MinYear..MaxYear
Months == 1..12

\* ------------------------------------------------------------------------
\* Layout constants
\* ------------------------------------------------------------------------
IMG_W == 1080
IMG_H == 1350
COLOR_DARK == "COLOR_DARK"
COLOR_GRAY == "COLOR_GRAY"
COLOR_ORANGE == "COLOR_ORANGE"
COL_X == <<120, 260, 400, 540, 680, 820, 960>>
Y_FIRST_ROW == 400
Y_HOURS_OFFSET == 50
Y_BOTTOM_TEXT == 1220
EVENT_BOX_GAP == 8

\* Python's None and a present value, kept apart from every string.
None == [some |-> FALSE]
Some(v) == [some |-> TRUE, val |-> v]

min(a, b) == IF a <= b THEN a ELSE b
max(a, b) == IF a >= b THEN a ELSE b

\* ------------------------------------------------------------------------
\* str(int) for non-negative integers: the decimal digits, no padding
\* ------------------------------------------------------------------------
Digits == <<"0", "1", "2", "3", "4", "5", "6", "7", "8", "9">>

RECURSIVE str(_)
str(n) == IF n < 10 THEN Digits[n + 1]
          ELSE str(n \div 10) \o Digits[(n % 10) + 1]

\* ------------------------------------------------------------------------
\* calendar.monthrange (proleptic Gregorian calendar, Monday = 0)
\* ------------------------------------------------------------------------
isleap(y) == y % 4 = 0 /\ (y % 100 # 0 \/ y % 400 = 0)

mdays == <<31, 28, 31, 30, 31, 30, 31, 31, 30, 31, 30, 31>>

days_in_month(y, m) == mdays[m] + (IF m = 2 /\ isleap(y) THEN 1 ELSE 0)

days_before_year(y) ==
    (y - 1) * 365 + ((y - 1) \div 4) - ((y - 1) \div 100) + ((y - 1) \div 400)

RECURSIVE days_before_month(_, _)
days_before_month(y, m) ==
    IF m = 1 THEN 0
    ELSE days_before_month(y, m - 1) + days_in_month(y, m - 1)

\* date(y, m, d).toordinal(): 0001-01-01 is day 1, a Monday
toordinal(y, m, d) == days_before_year(y) + days_before_month(y, m) + d

weekday(y, m, d) == (toordinal(y, m, d) + 6) % 7

\* <<weekday of day 1, number of days>>
monthrange(y, m) == <<weekday(y, m, 1), days_in_month(y, m)>>

\* ------------------------------------------------------------------------
\* build_simple_calendar
\* ------------------------------------------------------------------------
\* number of days of the previous month (December of year-1 for January)
prev_days(y, m) == IF m = 1 THEN monthrange(y - 1, 12)[2]
                   ELSE monthrange(y, m - 1)[2]

\* for i in range(first_dow): cells.append((prev_days - first_dow + 1 + i, -1))
prev_cells_one_early(pdays, first_dow) ==
    [k \in 1..first_dow |-> <<pdays - first_dow + (k - 1), -1>>]
prev_cells(pdays, first_dow) ==
    [k \in 1..first_dow |-> <<pdays - first_dow + 1 + (k - 1), -1>>]

\* for d in range(1, num_days + 1): cells.append((d, 0))
current_cells_off_by_one(num_days) == [d \in 1..(num_days - 1) |-> <<d, 0>>]
current_cells(num_days) == [d \in 1..num_days |-> <<d, 0>>]

\* while len(cells) % 7 != 0: cells.append((next_d, 1)); next_d += 1
RECURSIVE fill_next_full_week(_, _)
fill_next_full_week(cells, next_d) ==
    IF Len(cells) % 7 = 0 /\ next_d > 1 THEN cells
    ELSE fill_next_full_week(Append(cells, <<next_d, 1>>), next_d + 1)
RECURSIVE fill_next(_, _)
fill_next(cells, next_d) ==
    IF Len(cells) % 7 # 0
    THEN fill_next(Append(cells, <<next_d, 1>>), next_d + 1)
    ELSE cells

\* for i in range(0, len(cells), 7): weeks.append(cells[i:i+7])
split_weeks(cells) ==
    [w \in 1..((Len(cells) + 6) \div 7) |->
        SubSeq(cells, 7 * (w - 1) + 1, min(7 * w, Len(cells)))]

build_simple_calendar(y, m) ==
    LET first_dow == monthrange(y, m)[1]
        num_days == monthrange(y, m)[2]
        cells == fill_next(prev_cells(prev_days(y, m), first_dow)
                           \o current_cells(num_days), 1)
    IN split_weeks(cells)

\* ------------------------------------------------------------------------
\* Visibility policy
\* ------------------------------------------------------------------------
is_weekend_sunday_only(dow) == dow > 5
is_weekend(dow) == dow >= 5

should_show_adjacent_weekends_shifted(y, m) ==
    LET first_dow == monthrange(y, m)[1]
        num_days == monthrange(y, m)[2]
        last_dow == (first_dow + num_days) % 7
    IN <<first_dow = 6, last_dow \in {4, 5}>>
should_show_adjacent_weekends(y, m) ==
    LET first_dow == monthrange(y, m)[1]
        num_days == monthrange(y, m)[2]
        last_dow == (first_dow + num_days - 1) % 7
    IN <<first_dow = 6, last_dow \in {4, 5}>>

should_show_cell_any_column(dow, month_offset, show_prev, show_next) ==
    IF month_offset = 0 THEN TRUE
    ELSE IF month_offset = -1 THEN show_prev
    ELSE IF month_offset = 1 THEN show_next
    ELSE FALSE
should_show_cell(dow, month_offset, show_prev, show_next) ==
    IF month_offset = 0 THEN TRUE
    ELSE IF ~is_weekend(dow) THEN FALSE
    ELSE IF month_offset = -1 THEN show_prev
    ELSE IF month_offset = 1 THEN show_next
    ELSE FALSE

\* ------------------------------------------------------------------------
\* Schedule / holiday resolver.  A dict is a function on its keys; the
\* empty dict and the empty list are << >>.
\* ------------------------------------------------------------------------
\* dict.get(key, default)
dict_get(d, key, default) == IF key \in DOMAIN d THEN d[key] ELSE default

\* dict.get(key, None) on a dict of hours: its values are Some(text) for a
\* string and None for a JSON null, so a key with a null value gives None
\* exactly as a missing key does
dict_get_none(d, key) == IF key \in DOMAIN d THEN d[key] ELSE None

\* x in list
in_list(x, l) == \E i \in 1..Len(l) : l[i] = x

is_holiday_wrong_list(day, month_offset, cfg) ==
    IF month_offset = 0
    THEN in_list(day, dict_get(cfg, "prev_month_holidays", << >>))
    ELSE IF month_offset = -1
    THEN in_list(day, dict_get(cfg, "holidays", << >>))
    ELSE IF month_offset = 1
    THEN in_list(day, dict_get(cfg, "next_month_holidays", << >>))
    ELSE FALSE
is_holiday(day, month_offset, cfg) ==
    IF month_offset = 0 THEN in_list(day, dict_get(cfg, "holidays", << >>))
    ELSE IF month_offset = -1
    THEN in_list(day, dict_get(cfg, "prev_month_holidays", << >>))
    ELSE IF month_offset = 1
    THEN in_list(day, dict_get(cfg, "next_month_holidays", << >>))
    ELSE FALSE

get_hours_current_only(day, month_offset, cfg) ==
    dict_get_none(cfg["schedule"], str(day))
get_hours(day, month_offset, cfg) ==
    IF month_offset = 0 THEN dict_get_none(cfg["schedule"], str(day))
    ELSE IF month_offset = -1
    THEN dict_get_none(dict_get(cfg, "prev_month_schedule", << >>), str(day))
    ELSE IF month_offset = 1
    THEN dict_get_none(dict_get(cfg, "next_month_schedule", << >>), str(day))
    ELSE None

get_month_prefix_no_wrap(month_offset, y, m) ==
    IF month_offset = -1 THEN str(m - 1)
    ELSE IF month_offset = 1 THEN str(m + 1)
    ELSE ""
get_month_prefix(month_offset, y, m) ==
    IF month_offset = -1 THEN str(IF m > 1 THEN m - 1 ELSE 12)
    ELSE IF month_offset = 1 THEN str(IF m < 12 THEN m + 1 ELSE 1)
    ELSE ""

\* ------------------------------------------------------------------------
\* Text segmentation.  A text is the sequence of its code points.
\* ------------------------------------------------------------------------
is_latin_char(cp) == cp < 12288 \/ (65280 <= cp /\ cp <= 65519)

\* one iteration of "for ch in text"
segment_step(st, ch) ==
    LET ch_latin == is_latin_char(ch)
        cil == IF st.current_is_latin = None THEN Some(ch_latin)
               ELSE st.current_is_latin
    IN IF ch_latin # cil.val
       THEN [segments |-> IF st.current # << >>
                          THEN Append(st.segments, <<st.current, cil.val>>)
                          ELSE st.segments,
             current |-> <<ch>>,
             current_is_latin |-> Some(ch_latin)]
       ELSE [segments |-> st.segments,
             current |-> Append(st.current, ch),
             current_is_latin |-> cil]

RECURSIVE segment_loop(_, _, _)
segment_loop(st, txt, i) ==
    IF i > Len(txt) THEN st
    ELSE LET nxt == segment_step(st, txt[i])
         IN \* current holds at least ch after every iteration; the test makes
            \* each iteration be evaluated before the next one starts
            IF nxt.current = << >> THEN nxt
            ELSE segment_loop(nxt, txt, i + 1)

split_text_segments_drop_last(txt) ==
    segment_loop([segments |-> << >>, current |-> << >>,
                  current_is_latin |-> None], txt, 1).segments
split_text_segments(txt) ==
    LET st == segment_loop([segments |-> << >>, current |-> << >>,
                            current_is_latin |-> None], txt, 1)
    IN IF st.current # << >>
       THEN Append(st.segments, <<st.current, st.current_is_latin.val>>)
       ELSE st.segments

\* ------------------------------------------------------------------------
\* Event box layout
\* ------------------------------------------------------------------------
\* columns (0-based) of a week that count toward the event
matching_cols_any_month(week, start_day, end_day) ==
    {c \in 0..(Len(week) - 1) :
        start_day <= week[c + 1][1] /\ week[c + 1][1] <= end_day}
matching_cols(week, start_day, end_day) ==
    {c \in 0..(Len(week) - 1) :
        /\ week[c + 1][2] = 0
        /\ start_day <= week[c + 1][1]
        /\ week[c + 1][1] <= end_day}

set_min(S) == CHOOSE x \in S : \A y \in S : x <= y
set_max_first_match(S) == CHOOSE x \in S : \A y \in S : x <= y
set_max(S) == CHOOSE x \in S : \A y \in S : x >= y

RECURSIVE event_rows(_, _, _, _)
event_rows(wks, start_day, end_day, r) ==
    IF r >= Len(wks) THEN << >>
    ELSE LET cols == matching_cols(wks[r + 1], start_day, end_day)
             rest == event_rows(wks, start_day, end_day, r + 1)
         IN IF cols # {} THEN <<<<r, set_min(cols), set_max(cols)>>>> \o rest
            ELSE rest

\* requires "start" \in DOMAIN ev (event['start'] raises KeyError otherwise)
find_event_position(ev, wks, y, m) ==
    LET start_day == ev["start"]
        end_day == dict_get(ev, "end", start_day)
    IN event_rows(wks, start_day, end_day, 0)

\* ------------------------------------------------------------------------
\* Page composer: geometry
\* ------------------------------------------------------------------------
available_height_no_reserve == Y_BOTTOM_TEXT - Y_FIRST_ROW
available_height == Y_BOTTOM_TEXT - Y_FIRST_ROW - 100

\* row_height as the exact fraction <<numerator, denominator>>:
\* available_height / (num_weeks - 1) if num_weeks > 1 else 150, then
\* min(row_height, 155)
compute_row_height(num_weeks) ==
    LET rh == IF num_weeks > 1 THEN <<available_height, num_weeks - 1>>
              ELSE <<150, 1>>
    IN IF rh[1] <= 155 * rh[2] THEN rh ELSE <<155, 1>>

\* Y_FIRST_ROW + int(row_idx * row_height)
row_y(r, rh) == Y_FIRST_ROW + ((r * rh[1]) \div rh[2])

\* max(Y_BOTTOM_TEXT, last_row_bottom + 60)
compute_bottom_y(num_weeks, rh) ==
    LET last_row_bottom == row_y(num_weeks - 1, rh) + Y_HOURS_OFFSET + 30
    IN max(Y_BOTTOM_TEXT, last_row_bottom + 60)

\* ------------------------------------------------------------------------
\* Page composer: what one grid cell draws (body of the inner loop)
\* ------------------------------------------------------------------------
DrawOp(kind, r, dow, txt, color, y) ==
    [kind |-> kind, row |-> r, col |-> dow, text |-> txt, color |-> color,
     x |-> COL_X[dow + 1], y |-> y]

cell_draws(r, dow, c, cfg, y, m, show_prev, show_next, rh) ==
    LET day == c[1]
        month_offset == c[2]
        y_date == row_y(r, rh)
        y_hours == y_date + Y_HOURS_OFFSET
        colored == is_weekend(dow) \/ is_holiday(day, month_offset, cfg)
        date_color == IF colored THEN COLOR_ORANGE ELSE COLOR_DARK
        needs_prefix == month_offset # 0 \/ (r = 0 /\ show_prev)
        prefix == IF month_offset # 0 THEN get_month_prefix(month_offset, y, m)
                  ELSE str(m)
        hours == get_hours(day, month_offset, cfg)
    IN IF ~should_show_cell(dow, month_offset, show_prev, show_next) THEN {}
       ELSE {DrawOp("date", r, dow, str(day), date_color, y_date)}
            \cup (IF needs_prefix
                  THEN {DrawOp("prefix", r, dow, prefix \o "/", date_color,
                               y_date)}
                  ELSE {})
            \cup (IF hours # None
                  THEN {DrawOp("hours", r, dow, hours.val, COLOR_DARK, y_hours)}
                  ELSE IF month_offset = 0
                  THEN {DrawOp("closed", r, dow, "-", COLOR_GRAY, y_hours)}
                  ELSE {})

row_draws(r, week, cfg, y, m, show_prev, show_next, rh) ==
    UNION {cell_draws(r, dow, week[dow + 1], cfg, y, m, show_prev, show_next, rh) :
             dow \in 0..(Len(week) - 1)}

\* draw_event_box: the outline of one box and its label
event_box(pos, label, rh) ==
    [row |-> pos[1], start_col |-> pos[2], end_col |-> pos[3], text |-> label,
     x_left |-> COL_X[pos[2] + 1] - 60, x_right |-> COL_X[pos[3] + 1] + 60,
     y_top |-> row_y(pos[1], rh) + Y_HOURS_OFFSET + 18 + EVENT_BOX_GAP]

\* f"{month:02d}"
month_02d(m) == IF m < 10 THEN "0" \o str(m) ELSE str(m)

\* os.path.dirname(os.path.abspath(__file__)): the directory that holds
\* generate_calendar.py, an absolute path without a trailing separator
script_dir == "/srv/tiels_calendar"

\* os.path.join(a, b) for two components (POSIX): an absolute b replaces a
os_path_join(a, b) ==
    IF b # "" /\ Head(b) = "/" THEN b
    ELSE IF a = "" \/ SubSeq(a, Len(a), Len(a)) = "/" THEN a \o b
    ELSE a \o "/" \o b

\* ------------------------------------------------------------------------
\* Inputs
\* ------------------------------------------------------------------------
\* "05" is a key that str(5) never produces; "2" maps to an empty hours text
ScheduleA == "1" :> Some("15-21") @@ "2" :> Some("") @@ "05" :> Some("9-12")
             @@ "6" :> Some("17-22") @@ "28" :> Some("15-21")
             @@ "30" :> Some("17-21")
ScheduleInputs == {ScheduleA, << >>}

\* the optional keys of a configuration: none of them, or all of them
OptionalNone == << >>
OptionalAll ==
    "prev_month_schedule" :> ("30" :> Some("") @@ "31" :> Some("10-18"))
    @@ "next_month_schedule" :> ("1" :> Some("11-20") @@ "3" :> Some("12-19"))
    @@ "holidays" :> <<5, 20>>
    @@ "prev_month_holidays" :> <<31>>
    @@ "next_month_holidays" :> <<1>>
    @@ "bottom_text" :> <<12372, 48, 53, 53, 12395>>
    @@ "output_filename" :> "out.png"
\* every optional key present and empty, the output file name absolute
OptionalEmpty ==
    "prev_month_schedule" :> << >>
    @@ "next_month_schedule" :> << >>
    @@ "holidays" :> << >>
    @@ "prev_month_holidays" :> << >>
    @@ "next_month_holidays" :> << >>
    @@ "bottom_text" :> << >>
    @@ "output_filename" :> "/tmp/calendar.png"
OptionalInputs == {OptionalNone, OptionalAll, OptionalEmpty}

EventsInputs ==
    { << >>,
      "events" :> << >>,
      "events" :> <<[start |-> 27, end |-> 28, name |-> "Sale"]>>,
      "events" :> <<[start |-> 5, name |-> "Fair"]>>,
      "events" :> <<[start |-> 5, end |-> 6]>>,
      "events" :> <<[start |-> 1, end |-> 10, name |-> ""],
                    [end |-> 12, name |-> "Open"]>> }

ConfigInputs ==
    { ("year" :> y @@ "month" :> m @@ "schedule" :> s) @@ o @@ e :
        y \in Years, m \in Months, s \in ScheduleInputs,
        o \in OptionalInputs, e \in EventsInputs }

\* events of the event-layout specification: every day range of the month,
\* with and without an 'end' field
EventInputs(y, m) ==
    LET n == monthrange(y, m)[2]
    IN {e \in [start : 1..n, end : 1..n, name : {"Sale"}] : e.start <= e.end}
       \cup {[start |-> a, name |-> "Sale"] : a \in 1..n}

\* code points on both sides of each class boundary of is_latin_char
CodePoints == {65, 12287, 12288, 12354, 65280, 65519, 65520}

RECURSIVE SeqsUpTo(_, _)
SeqsUpTo(S, n) ==
    IF n = 0 THEN {<< >>}
    ELSE LET shorter == SeqsUpTo(S, n - 1)
         IN shorter \cup {Append(q, c) : q \in {r \in shorter : Len(r) = n - 1},
                                         c \in S}

TextInputs == SeqsUpTo(CodePoints, MaxTextLen)

\* ------------------------------------------------------------------------
\* State machine
\* ------------------------------------------------------------------------
\* --- generate_calendar(config) ---
Init ==
    /\ pc = "start"
    /\ config \in ConfigInputs
    /\ year = 0 /\ month = 0 /\ weeks = << >>
    /\ show_prev_weekends = FALSE /\ show_next_weekends = FALSE
    /\ row_height = <<0, 1>> /\ row_idx = 0 /\ event_idx = 0
    /\ drawn = {} /\ boxes = {} /\ bottom = None /\ output = ""
    /\ event = << >> /\ positions = << >> /\ text = << >> /\ segments = << >>

\* grid, visibility flags and row pitch
Setup ==
    /\ pc = "start"
    /\ year' = config["year"]
    /\ month' = config["month"]
    /\ weeks' = build_simple_calendar(config["year"], config["month"])
    /\ show_prev_weekends' =
           should_show_adjacent_weekends(config["year"], config["month"])[1]
    /\ show_next_weekends' =
           should_show_adjacent_weekends(config["year"], config["month"])[2]
    /\ row_height' = compute_row_height(Len(weeks'))
    /\ row_idx' = 0
    /\ pc' = "rows"
    /\ UNCHANGED <<config, event_idx, drawn, boxes, bottom, output, event,
                   positions, text, segments>>

\* one iteration of "for row_idx, week in enumerate(weeks)"
DrawRow ==
    /\ pc = "rows"
    /\ row_idx < Len(weeks)
    /\ drawn' = drawn \cup row_draws(row_idx, weeks[row_idx + 1], config, year,
                                     month, show_prev_weekends,
                                     show_next_weekends, row_height)
    /\ row_idx' = row_idx + 1
    /\ pc' = IF row_idx + 1 < Len(weeks) THEN "rows" ELSE "events"
    /\ UNCHANGED <<year, month, config, weeks, show_prev_weekends,
                   show_next_weekends, row_height, event_idx, boxes, bottom,
                   output, event, positions, text, segments>>

\* one iteration of "for event in events"; a missing key raises KeyError
DrawEvent ==
    /\ pc = "events"
    /\ event_idx < Len(dict_get(config, "events", << >>))
    /\ LET ev == dict_get(config, "events", << >>)[event_idx + 1]
       IN /\ event' = ev
          /\ IF "start" \notin DOMAIN ev
             THEN /\ pc' = "KeyError"
                  /\ UNCHANGED <<positions, boxes, event_idx>>
             ELSE LET pos == find_event_position(ev, weeks, year, month)
                  IN /\ positions' = pos
                     /\ IF pos # << >> /\ "name" \notin DOMAIN ev
                        THEN /\ pc' = "KeyError"
                             /\ UNCHANGED <<boxes, event_idx>>
                        ELSE /\ boxes' = boxes \cup
                                   {event_box(pos[i], ev["name"], row_height) :
                                       i \in 1..Len(pos)}
                             /\ event_idx' = event_idx + 1
                             /\ pc' = "events"
    /\ UNCHANGED <<year, month, config, weeks, show_prev_weekends,
                   show_next_weekends, row_height, row_idx, drawn, bottom,
                   output, text, segments>>

\* bottom text, after the last event
DrawBottom ==
    /\ pc = "events"
    /\ event_idx = Len(dict_get(config, "events", << >>))
    /\ LET bottom_text == dict_get(config, "bottom_text", << >>)
       IN IF bottom_text # << >>
          THEN /\ text' = bottom_text
               /\ segments' = split_text_segments(bottom_text)
               /\ bottom' = Some(compute_bottom_y(Len(weeks), row_height))
          ELSE UNCHANGED <<text, segments, bottom>>
    /\ pc' = "save"
    /\ UNCHANGED <<year, month, config, weeks, show_prev_weekends,
                   show_next_weekends, row_height, row_idx, event_idx, drawn,
                   boxes, output, event, positions>>

\* output path
Save ==
    /\ pc = "save"
    /\ output' =
           os_path_join(script_dir,
               IF dict_get(config, "output_filename", "") # ""
               THEN config["output_filename"]
               ELSE "calendar_" \o str(year) \o "_" \o month_02d(month)
                    \o ".png")
    /\ pc' = "done"
    /\ UNCHANGED <<year, month, config, weeks, show_prev_weekends,
                   show_next_weekends, row_height, row_idx, event_idx, drawn,
                   boxes, bottom, event, positions, text, segments>>

Next == Setup \/ DrawRow \/ DrawEvent \/ DrawBottom \/ Save

Spec == Init /\ [][Next]_vars

\* --- build_simple_calendar and should_show_adjacent_weekends applied to
\* --- every (year, month) ---
InitGrid ==
    /\ pc = "grid_start"
    /\ year \in Years /\ month \in Months
    /\ config = << >> /\ weeks = << >>
    /\ show_prev_weekends = FALSE /\ show_next_weekends = FALSE
    /\ row_height = <<0, 1>> /\ row_idx = 0 /\ event_idx = 0
    /\ drawn = {} /\ boxes = {} /\ bottom = None /\ output = ""
    /\ event = << >> /\ positions = << >> /\ text = << >> /\ segments = << >>

BuildGrid ==
    /\ pc = "grid_start"
    /\ weeks' = build_simple_calendar(year, month)
    /\ pc' = "grid_built"
    /\ UNCHANGED <<year, month, config, show_prev_weekends, show_next_weekends,
                   row_height, row_idx, event_idx, drawn, boxes, bottom, output,
                   event, positions, text, segments>>

AdjacentWeekends ==
    /\ pc = "grid_built"
    /\ show_prev_weekends' = should_show_adjacent_weekends(year, month)[1]
    /\ show_next_weekends' = should_show_adjacent_weekends(year, month)[2]
    /\ pc' = "grid_policy"
    /\ UNCHANGED <<year, month, config, weeks, row_height, row_idx, event_idx,
                   drawn, boxes, bottom, output, event, positions, text,
                   segments>>

NextGrid == BuildGrid \/ AdjacentWeekends

SpecGrid == InitGrid /\ [][NextGrid]_vars

\* --- find_event_position applied to every day range of every month ---
InitEvent ==
    /\ pc = "event_start"
    /\ year \in Years /\ month \in Months
    /\ weeks = build_simple_calendar(year, month)
    /\ event \in EventInputs(year, month)
    /\ config = << >>
    /\ show_prev_weekends = FALSE /\ show_next_weekends = FALSE
    /\ row_height = <<0, 1>> /\ row_idx = 0 /\ event_idx = 0
    /\ drawn = {} /\ boxes = {} /\ bottom = None /\ output = ""
    /\ positions = << >> /\ text = << >> /\ segments = << >>

FindEventPosition ==
    /\ pc = "event_start"
    /\ positions' = find_event_position(event, weeks, year, month)
    /\ pc' = "event_done"
    /\ UNCHANGED <<year, month, config, weeks, show_prev_weekends,
                   show_next_weekends, row_height, row_idx, event_idx, drawn,
                   boxes, bottom, output, event, text, segments>>

NextEvent == FindEventPosition

SpecEvent == InitEvent /\ [][NextEvent]_vars

\* --- split_text_segments applied to every text over CodePoints ---
InitText ==
    /\ pc = "text_start"
    /\ text \in TextInputs
    /\ year = 0 /\ month = 0 /\ config = << >> /\ weeks = << >>
    /\ show_prev_weekends = FALSE /\ show_next_weekends = FALSE
    /\ row_height = <<0, 1>> /\ row_idx = 0 /\ event_idx = 0
    /\ drawn = {} /\ boxes = {} /\ bottom = None /\ output = ""
    /\ event = << >> /\ positions = << >> /\ segments = << >>

SplitText ==
    /\ pc = "text_start"
    /\ segments' = split_text_segments(text)
    /\ pc' = "text_done"
    /\ UNCHANGED <<year, month, config, weeks, show_prev_weekends,
                   show_next_weekends, row_height, row_idx, event_idx, drawn,
                   boxes, bottom, output, event, positions, text>>

NextText == SplitText

SpecText == InitText /\ [][NextText]_vars

\* ========================================================================
\* Properties
\* ========================================================================
RECURSIVE Flatten(_)
Flatten(ss) == IF ss = << >> THEN << >> ELSE Head(ss) \o Flatten(Tail(ss))

IsCurrent(c) == c[2] = 0

GridBuilt == pc \in {"grid_built", "grid_policy"}

\* C1: the grid's cell count is a multiple of 7 and at least the month's day
\* count, every week has exactly 7 cells, and the month_offset-0 cells read
\* in grid order are exactly the days 1, 2, ..., daysInMonth.
C1_GridCoversMonth ==
    GridBuilt =>
        LET n == days_in_month(year, month)
            cells == Flatten(weeks)
        IN /\ Len(cells) % 7 = 0
           /\ Len(cells) >= n
           /\ \A w \in 1..Len(weeks) : Len(weeks[w]) = 7
           /\ SelectSeq(cells, IsCurrent) = [d \in 1..n |-> <<d, 0>>]

\* March 2026: six weeks, day 1 in the Sunday column of the first week
C1_Witness ==
    /\ GridBuilt /\ year = 2026 /\ month = 3
    /\ Len(weeks) = 6 /\ weeks[1][7] = <<1, 0>> /\ weeks[6][2] = <<31, 0>>

\* C2 as stated: the grid has exactly 5 or exactly 6 weeks.
C2_FiveOrSixWeeks == GridBuilt => Len(weeks) \in {5, 6}

\* C2 amended: the grid has 4, 5 or 6 weeks, and it has 4 weeks exactly
\* when the month is a 28-day February whose first day is a Monday.
C2_FourToSixWeeks ==
    GridBuilt =>
        /\ Len(weeks) \in {4, 5, 6}
        /\ Len(weeks) = 4 <=>
              (days_in_month(year, month) = 28 /\ weekday(year, month, 1) = 0)

\* February 2021 starts on a Monday and has 28 days
C2_Witness ==
    /\ GridBuilt /\ year = 2021 /\ month = 2
    /\ Len(weeks) = 4 /\ weeks[1][1] = <<1, 0>> /\ weeks[4][7] = <<28, 0>>

\* C3: show_prev is true iff the month's first day is a Sunday, and
\* show_next is true iff the month's last day is a Friday or a Saturday.
C3_AdjacentWeekendPolicy ==
    pc = "grid_policy" =>
        /\ show_prev_weekends = (weekday(year, month, 1) = 6)
        /\ show_next_weekends =
               (weekday(year, month, days_in_month(year, month)) \in {4, 5})
        /\ weekday(year, month, days_in_month(year, month)) \in {6, 0, 1, 2, 3}
               => ~show_next_weekends

\* a 29-day February that starts on a Sunday (so it ends on a Sunday): the
\* previous weekend is shown, the next one is not
C3_Witness ==
    /\ pc = "grid_policy" /\ month = 2
    /\ weekday(year, month, 1) = 6 /\ days_in_month(year, month) = 29
    /\ show_prev_weekends /\ ~show_next_weekends

\* ------------------------------------------------------------------------
\* Rendering properties (specification Spec)
\* ------------------------------------------------------------------------
\* the grid cell a draw operation belongs to
CellOf(op) == weeks[op.row + 1][op.col + 1]

\* the draw operations of one cell
OpsAt(r, c) == {op \in drawn : op.row = r /\ op.col = c}

\* cells of the rows drawn so far, as <<row, column>>
DrawnCells == {rc \in (0..(row_idx - 1)) \X (0..6) : rc[1] < Len(weeks)}

\* the rule of visibility, written out
Visible(dow, month_offset, show_prev, show_next) ==
    \/ month_offset = 0
    \/ /\ dow \in {5, 6}
       /\ \/ (month_offset = -1 /\ show_prev)
          \/ (month_offset = 1 /\ show_next)

\* C4: should_show_cell is true for every current-month cell and, for a
\* previous-/next-month cell, iff the column is Saturday or Sunday and the
\* flag of the cell's side is true; nothing is drawn for a cell for which it
\* is false.
C4_OnlyVisibleCellsDrawn ==
    /\ \A dow \in 0..6, mo \in {-1, 0, 1}, sp \in BOOLEAN, sn \in BOOLEAN :
          should_show_cell(dow, mo, sp, sn) = Visible(dow, mo, sp, sn)
    /\ \A rc \in DrawnCells :
          LET c == weeks[rc[1] + 1][rc[2] + 1]
          IN IF Visible(rc[2], c[2], show_prev_weekends, show_next_weekends)
             THEN \E op \in OpsAt(rc[1], rc[2]) : op.kind = "date"
             ELSE OpsAt(rc[1], rc[2]) = {}

\* a month that ends on a Thursday: the next month's Saturday and Sunday are
\* in the last week of the grid and are not drawn, the month's last day is
C4_Witness ==
    /\ pc = "done" /\ ~show_next_weekends
    /\ weeks[Len(weeks)][4][2] = 0
    /\ weeks[Len(weeks)][6] = <<2, 1>> /\ weeks[Len(weeks)][7] = <<3, 1>>
    /\ OpsAt(Len(weeks) - 1, 5) = {} /\ OpsAt(Len(weeks) - 1, 6) = {}
    /\ OpsAt(Len(weeks) - 1, 3) # {}

\* decimal keys of the days of a month
DayKeys == <<"1", "2", "3", "4", "5", "6", "7", "8", "9", "10", "11", "12",
             "13", "14", "15", "16", "17", "18", "19", "20", "21", "22", "23",
             "24", "25", "26", "27", "28", "29", "30", "31">>

\* the hours mapping that belongs to a month_offset
MappingOf(month_offset) ==
    IF month_offset = 0 THEN config["schedule"]
    ELSE IF month_offset = -1
    THEN (IF "prev_month_schedule" \in DOMAIN config
          THEN config["prev_month_schedule"] ELSE << >>)
    ELSE (IF "next_month_schedule" \in DOMAIN config
          THEN config["next_month_schedule"] ELSE << >>)

HoursOps(r, c) == {op \in OpsAt(r, c) : op.kind \in {"hours", "closed"}}

\* C5: for every visible cell the hours come from the mapping selected by
\* the cell's month_offset under the key str(day): a present entry (even an
\* empty string) is drawn as the hours text, an absent entry of a
\* current-month day is drawn as the closed-marker "-", an absent entry of a
\* previous-/next-month day draws nothing.
C5_HoursThreeValued ==
    \A rc \in DrawnCells :
        LET c == weeks[rc[1] + 1][rc[2] + 1]
            mapping == MappingOf(c[2])
            key == DayKeys[c[1]]
            ops == HoursOps(rc[1], rc[2])
        IN Visible(rc[2], c[2], show_prev_weekends, show_next_weekends) =>
              IF key \in DOMAIN mapping
              THEN /\ Cardinality(ops) = 1
                   /\ \A op \in ops : op.kind = "hours" /\ op.text = mapping[key].val
              ELSE IF c[2] = 0
              THEN /\ Cardinality(ops) = 1
                   /\ \A op \in ops : op.kind = "closed" /\ op.text = "-"
              ELSE ops = {}

\* March 2026 with ScheduleA and all optional keys: day 2 has the empty
\* hours text, day 5 (key "05" only) the closed-marker, day 1 the hours of
\* schedule and not of next_month_schedule, and the visible cell of
\* February 28 no hours although schedule has a key "28"
C5_Witness ==
    /\ pc = "done" /\ year = 2026 /\ month = 3
    /\ weeks[1][6] = <<28, -1>> /\ show_prev_weekends
    /\ \E op \in OpsAt(0, 5) : op.kind = "date" /\ op.text = "28"
    /\ HoursOps(0, 5) = {}
    /\ \E op \in OpsAt(0, 6) : op.kind = "hours" /\ op.text = "15-21"
    /\ \E op \in OpsAt(1, 0) : op.kind = "hours" /\ op.text = ""
    /\ \E op \in OpsAt(1, 3) : op.kind = "closed" /\ op.text = "-"

\* C8: an event that lacks the 'end' or the 'name' field never makes the
\* render fail: it is laid out as if end = start and, without a name, with
\* an empty label.
C8_MissingEventFieldsTolerated ==
    (pc \in {"events", "KeyError"} /\ event # << >> /\ "start" \in DOMAIN event)
        => /\ pc # "KeyError"
           /\ LET e == [start |-> event["start"],
                        end |-> IF "end" \in DOMAIN event THEN event["end"]
                                ELSE event["start"],
                        name |-> IF "name" \in DOMAIN event THEN event["name"]
                                 ELSE ""]
              IN /\ positions = find_event_position(e, weeks, year, month)
                 /\ \A i \in 1..Len(positions) :
                       \E b \in boxes : /\ b.row = positions[i][1]
                                        /\ b.start_col = positions[i][2]
                                        /\ b.end_col = positions[i][3]
                                        /\ b.text = e.name

\* the event without 'end' is laid out on its start day alone and drawn
C8_EndDefaultsToStart ==
    /\ pc = "done" /\ event # << >> /\ "end" \notin DOMAIN event
    /\ Len(positions) = 1 /\ positions[1][2] = positions[1][3]
    /\ \E b \in boxes : b.text = "Fair" /\ b.start_col = b.end_col

\* the row pitch of the claim, as <<numerator, denominator>>:
\* min(720 / (numberOfWeeks - 1), 155)
Pitch(n) == IF 720 <= 155 * (n - 1) THEN <<720, n - 1>> ELSE <<155, 1>>

\* 400 + floor(r * pitch)
RowY(r, n) == 400 + ((r * Pitch(n)[1]) \div Pitch(n)[2])

\* C9: row r is drawn at Y = 400 + floor(r * pitch), and the bottom text is
\* placed at max(1220, lastRowY + 50 + 30 + 60): never above 1220, at least
\* 90 px below the hours line of the last row, and inside the 1350-px canvas.
C9_BottomTextBelowGrid ==
    LET n == Len(weeks)
    IN /\ \A op \in drawn :
             op.y = RowY(op.row, n)
                    + (IF op.kind \in {"hours", "closed"} THEN 50 ELSE 0)
       /\ bottom # None =>
             LET lastRowY == RowY(n - 1, n)
             IN /\ bottom.val = max(1220, lastRowY + 50 + 30 + 60)
                /\ bottom.val >= 1220
                /\ bottom.val >= (lastRowY + 50) + 90
                /\ bottom.val < 1350
                /\ \A op \in drawn : op.y + 90 <= bottom.val

\* a 6-week month: pitch 144, last row at 1120, bottom text at 1260
C9_Witness ==
    /\ pc = "done" /\ Len(weeks) = 6 /\ bottom = Some(1260)
    /\ \E op \in drawn : op.row = 5 /\ op.kind = "date" /\ op.y = 1120

\* the holiday list that belongs to a month_offset
HolidaysOf(month_offset) ==
    LET key == IF month_offset = 0 THEN "holidays"
               ELSE IF month_offset = -1 THEN "prev_month_holidays"
               ELSE "next_month_holidays"
    IN IF key \in DOMAIN config THEN config[key] ELSE << >>

\* C10: the day number of a visible cell is drawn in the weekend/holiday
\* colour iff its column is Saturday or Sunday or its day is in the holiday
\* list selected by its month_offset; the closed-marker is always drawn in
\* the closed-day colour.
C10_HighlightColour ==
    \A op \in drawn :
        LET c == CellOf(op)
            hl == HolidaysOf(c[2])
            highlighted == \/ op.col \in {5, 6}
                           \/ \E i \in 1..Len(hl) : hl[i] = c[1]
        IN /\ op.kind = "date" =>
                 op.color = (IF highlighted THEN COLOR_ORANGE ELSE COLOR_DARK)
           /\ op.kind = "closed" => op.color = COLOR_GRAY

\* May 2026, day 5 is a Tuesday without hours.  With holidays = [5, 20] the
\* day number is in the holiday colour and the closed-marker below it in the
\* closed-day colour; a Saturday is highlighted, day 6 (Wednesday) is not
C10_Witness ==
    /\ pc = "done" /\ year = 2026 /\ month = 5
    /\ weeks[2][2] = <<5, 0>>
    /\ \E op \in OpsAt(1, 1) : op.kind = "date" /\ op.color = COLOR_ORANGE
    /\ \E op \in OpsAt(1, 1) : op.kind = "closed" /\ op.color = COLOR_GRAY
    /\ \E op \in OpsAt(1, 2) : op.kind = "date" /\ op.color = COLOR_DARK
    /\ \E op \in OpsAt(1, 5) : op.kind = "date" /\ op.color = COLOR_ORANGE

\* ------------------------------------------------------------------------
\* Text segmentation properties (specification SpecText)
\* ------------------------------------------------------------------------
\* number of positions where the class of the next character differs
Transitions(txt) ==
    Cardinality({i \in 1..(Len(txt) - 1) :
                    is_latin_char(txt[i]) # is_latin_char(txt[i + 1])})

RunTexts(segs) == [i \in 1..Len(segs) |-> segs[i][1]]

\* every run is non-empty and of one class, adjacent runs differ in class
WellFormedRuns(segs) ==
    /\ \A i \in 1..Len(segs) :
          /\ segs[i][1] # << >>
          /\ \A k \in 1..Len(segs[i][1]) :
                is_latin_char(segs[i][1][k]) = segs[i][2]
    /\ \A i \in 1..(Len(segs) - 1) : segs[i][2] # segs[i + 1][2]

\* C6 as stated: for every string the run count is the number of class
\* transitions plus 1, the run texts concatenate to the string, and the
\* runs are non-empty, single-class and alternate in class.
C6_RunsEveryString ==
    pc = "text_done" =>
        /\ Len(segments) = Transitions(text) + 1
        /\ Flatten(RunTexts(segments)) = text
        /\ WellFormedRuns(segments)

\* C6 amended: the same for every non-empty string; the empty string has no
\* run.
C6_RunsNonEmptyString ==
    pc = "text_done" =>
        /\ Len(segments) = IF text = << >> THEN 0 ELSE Transitions(text) + 1
        /\ Flatten(RunTexts(segments)) = text
        /\ WellFormedRuns(segments)

\* "A" + hiragana + fullwidth form: three runs, Latin / non-Latin / Latin
C6_Witness ==
    /\ pc = "text_done" /\ text = <<65, 12354, 65280>>
    /\ segments = <<<<<<65>>, TRUE>>, <<<<12354>>, FALSE>>, <<<<65280>>, TRUE>>>>

\* ------------------------------------------------------------------------
\* Event layout properties (specification SpecEvent)
\* ------------------------------------------------------------------------
\* 0-based grid week of a day of the current month
WeekOfDay(d) == (weekday(year, month, 1) + d - 1) \div 7

EndOf(ev) == IF "end" \in DOMAIN ev THEN ev["end"] ELSE ev["start"]

SpansWeekBoundary(ev) == WeekOfDay(ev["start"]) # WeekOfDay(EndOf(ev))

TriplesInRange(pos) ==
    /\ \A i \in 1..Len(pos) :
          0 <= pos[i][2] /\ pos[i][2] <= pos[i][3] /\ pos[i][3] <= 6
    /\ \A i \in 1..Len(pos), j \in 1..Len(pos) :
          i # j => pos[i][1] # pos[j][1]

\* C7 as stated: an event whose start and end lie in different grid weeks
\* gets exactly 2 position triples, with distinct week indices and
\* 0 <= start_col <= end_col <= 6.
C7_ExactlyTwoTriples ==
    (pc = "event_done" /\ SpansWeekBoundary(event)) =>
        /\ Len(positions) = 2
        /\ TriplesInRange(positions)

\* C7 amended: such an event gets one triple per grid week from the week of
\* its start to the week of its end (at least 2, exactly 2 when the two
\* weeks are adjacent), with distinct week indices and
\* 0 <= start_col <= end_col <= 6.
C7_OneTriplePerWeek ==
    (pc = "event_done" /\ SpansWeekBoundary(event)) =>
        /\ Len(positions) = WeekOfDay(EndOf(event)) - WeekOfDay(event["start"]) + 1
        /\ Len(positions) >= 2
        /\ WeekOfDay(EndOf(event)) = WeekOfDay(event["start"]) + 1
               => Len(positions) = 2
        /\ TriplesInRange(positions)

\* June 2026: day 27 is the Saturday of week 3 and day 29 the Monday of
\* week 4; the event 27..29 gets the triples of both weeks
C7_Witness ==
    /\ pc = "event_done" /\ year = 2026 /\ month = 6
    /\ event["start"] = 27 /\ EndOf(event) = 29
    /\ positions = <<<<3, 5, 6>>, <<4, 0, 0>>>>

\* ------------------------------------------------------------------------
\* Month-number prefix (specification Spec)
\* ------------------------------------------------------------------------
PrefixOps(r, c) == {op \in OpsAt(r, c) : op.kind = "prefix"}

\* number of the month a cell's day belongs to
MonthOfCell(month_offset) ==
    IF month_offset = -1 THEN (IF month = 1 THEN 12 ELSE month - 1)
    ELSE IF month_offset = 1 THEN (IF month = 12 THEN 1 ELSE month + 1)
    ELSE month

\* C11: a visible cell has a prefix "M/" iff it is a previous-/next-month
\* cell or a current-month cell of row 0 while show_prev is true; M is the
\* number of the month the cell's day belongs to.
C11_MonthPrefix ==
    \A rc \in DrawnCells :
        LET c == weeks[rc[1] + 1][rc[2] + 1]
            ops == PrefixOps(rc[1], rc[2])
        IN Visible(rc[2], c[2], show_prev_weekends, show_next_weekends) =>
              IF c[2] # 0 \/ (rc[1] = 0 /\ show_prev_weekends)
              THEN /\ Cardinality(ops) = 1
                   /\ \A op \in ops :
                         op.text = DayKeys[MonthOfCell(c[2])] \o "/"
              ELSE ops = {}

\* January 2023 starts on a Sunday: December 31 is drawn as "12/31",
\* January 1 in the same row as "1/1", and January 2 without prefix
C11_Witness ==
    /\ pc = "done" /\ year = 2023 /\ month = 1 /\ show_prev_weekends
    /\ weeks[1][6] = <<31, -1>> /\ weeks[1][7] = <<1, 0>>
    /\ \E op \in PrefixOps(0, 5) : op.text = "12/"
    /\ \E op \in PrefixOps(0, 6) : op.text = "1/"
    /\ PrefixOps(1, 0) = {} /\ OpsAt(1, 0) # {}

\* ------------------------------------------------------------------------
\* Event layout, week by week (specification SpecEvent)
\* ------------------------------------------------------------------------
\* the cell in column c (0-based) of week r (0-based) is a current-month day
\* of the event
InEvent(r, c, ev) ==
    /\ weeks[r + 1][c + 1][2] = 0
    /\ ev["start"] <= weeks[r + 1][c + 1][1]
    /\ weeks[r + 1][c + 1][1] <= EndOf(ev)

EventWeeks(ev) == {r \in 0..(Len(weeks) - 1) : \E c \in 0..6 : InEvent(r, c, ev)}

\* C12: find_event_position returns, in ascending week order, exactly one
\* triple for each week that has a current-month day of [start, end] and none
\* for any other week; start_col and end_col are the least and greatest
\* matching columns, every cell in start_col..end_col is a current-month
\* cell with its day in [start, end], and every day of [start, end] is
\* covered by exactly one triple.
C12_TriplePerEventWeek ==
    pc = "event_done" =>
        /\ {positions[i][1] : i \in 1..Len(positions)} = EventWeeks(event)
        /\ Len(positions) = Cardinality(EventWeeks(event))
        /\ \A i \in 1..(Len(positions) - 1) :
              positions[i][1] < positions[i + 1][1]
        /\ \A i \in 1..Len(positions) :
              LET r == positions[i][1]
                  cols == {c \in 0..6 : InEvent(r, c, event)}
              IN /\ positions[i][2] \in cols
                 /\ positions[i][3] \in cols
                 /\ \A c \in cols : positions[i][2] <= c /\ c <= positions[i][3]
                 /\ \A c \in positions[i][2]..positions[i][3] :
                       InEvent(r, c, event)
        /\ \A d \in event["start"]..EndOf(event) :
              Cardinality({i \in 1..Len(positions) :
                  \E c \in positions[i][2]..positions[i][3] :
                      weeks[positions[i][1] + 1][c + 1] = <<d, 0>>}) = 1

\* March 2026, event 1..31: one triple in each of the six weeks, the first
\* on the Sunday column alone, the last on Monday and Tuesday
C12_Witness ==
    /\ pc = "event_done" /\ year = 2026 /\ month = 3
    /\ event["start"] = 1 /\ EndOf(event) = 31
    /\ positions = <<<<0, 6, 6>>, <<1, 0, 6>>, <<2, 0, 6>>, <<3, 0, 6>>,
                     <<4, 0, 6>>, <<5, 0, 1>>>>

\* ------------------------------------------------------------------------
\* Fill cells of the grid (specification SpecGrid)
\* ------------------------------------------------------------------------
IsPrev(c) == c[2] = -1
IsNext(c) == c[2] = 1

\* <<year, month>> of the month a cell belongs to
MonthOfOffset(month_offset) ==
    IF month_offset = -1
    THEN (IF month = 1 THEN <<year - 1, 12>> ELSE <<year, month - 1>>)
    ELSE IF month_offset = 1
    THEN (IF month = 12 THEN <<year + 1, 1>> ELSE <<year, month + 1>>)
    ELSE <<year, month>>

\* weekday of the date a cell stands for
WeekdayOfCell(c) ==
    weekday(MonthOfOffset(c[2])[1], MonthOfOffset(c[2])[2], c[1])

\* C13: the previous-month cells are exactly firstWeekday cells holding the
\* last firstWeekday days of the previous month in ascending order, ending
\* at its last day; the next-month cells hold 1, 2, ..., k with k < 7; the
\* cell in column c of any week falls on weekday c.
C13_FillCellsAreRealDates ==
    GridBuilt =>
        LET cells == Flatten(weeks)
            fd == weekday(year, month, 1)
            pm == MonthOfOffset(-1)
            pd == days_in_month(pm[1], pm[2])
            prevs == SelectSeq(cells, IsPrev)
            nexts == SelectSeq(cells, IsNext)
        IN /\ prevs = [k \in 1..fd |-> <<pd - fd + k, -1>>]
           /\ prevs = SubSeq(cells, 1, fd)
           /\ Len(nexts) < 7
           /\ nexts = [k \in 1..Len(nexts) |-> <<k, 1>>]
           /\ nexts = SubSeq(cells, Len(cells) - Len(nexts) + 1, Len(cells))
           /\ \A w \in 1..Len(weeks) : \A c \in 1..Len(weeks[w]) :
                 WeekdayOfCell(weeks[w][c]) = c - 1

\* January 2023 starts on a Sunday: the first week holds December 26..31 of
\* 2022 and January 1, the last week January 30, 31 and February 1..5
C13_Witness ==
    /\ GridBuilt /\ year = 2023 /\ month = 1
    /\ weeks[1] = <<<<26, -1>>, <<27, -1>>, <<28, -1>>, <<29, -1>>,
                    <<30, -1>>, <<31, -1>>, <<1, 0>>>>
    /\ weeks[6] = <<<<30, 0>>, <<31, 0>>, <<1, 1>>, <<2, 1>>, <<3, 1>>,
                    <<4, 1>>, <<5, 1>>>>

\* ------------------------------------------------------------------------
\* interactive_create (src/create_month.py): the configuration it writes
\* ------------------------------------------------------------------------
\* JAPAN_HOLIDAYS: year -> month -> list of days
JAPAN_HOLIDAYS ==
    2026 :> (1 :> <<1, 12>> @@ 2 :> <<11, 23>> @@ 3 :> <<20>> @@ 4 :> <<29>>
             @@ 5 :> <<3, 4, 5, 6>> @@ 7 :> <<20>> @@ 8 :> <<11>>
             @@ 9 :> <<21, 22, 23>> @@ 10 :> <<12>> @@ 11 :> <<3, 23>>
             @@ 12 :> << >>)
    @@ 2027 :> (1 :> <<1, 11>> @@ 2 :> <<11, 23>> @@ 3 :> <<21>> @@ 4 :> <<29>>
                @@ 5 :> <<3, 4, 5>> @@ 7 :> <<19>> @@ 8 :> <<11>>
                @@ 9 :> <<20, 23>> @@ 10 :> <<11>> @@ 11 :> <<3, 23>>
                @@ 12 :> << >>)

get_holidays(y, m) ==
    IF y \in DOMAIN JAPAN_HOLIDAYS /\ m \in DOMAIN JAPAN_HOLIDAYS[y]
    THEN JAPAN_HOLIDAYS[y][m]
    ELSE << >>

\* a <<day, dow>> pair with dow >= 5
IsWeekendPair(p) == p[2] >= 5

DaysOf(pairs) == [i \in 1..Len(pairs) |-> pairs[i][1]]

\* previous-month days announced as displayed: the leading cells with i >= 5
prev_weekend_days(y, m) ==
    LET first_dow == monthrange(y, m)[1]
        pdays == prev_days(y, m)
        all == [k \in 1..first_dow |-> <<pdays - first_dow + 1 + (k - 1), k - 1>>]
    IN IF first_dow > 0 THEN DaysOf(SelectSeq(all, IsWeekendPair)) ELSE << >>

\* next-month days announced as displayed: the days up to the next Sunday
\* that fall on Saturday or Sunday
next_weekend_days(y, m) ==
    LET first_dow == monthrange(y, m)[1]
        num_days == monthrange(y, m)[2]
        last_day_dow == (first_dow + num_days - 1) % 7
        remaining == 6 - last_day_dow
        all == [i \in 1..remaining |-> <<i, (last_day_dow + i) % 7>>]
    IN IF last_day_dow < 6 THEN DaysOf(SelectSeq(all, IsWeekendPair)) ELSE << >>

\* answers to the hours prompts; the empty answer means the default "15-21"
HoursInputs == {"", "10-18"}

\* {str(d): hours} for the announced days, answers[i] being the answer for
\* days[i]
collect_hours(days, answers) ==
    [key \in {str(days[i]) : i \in 1..Len(days)} |->
        LET i == CHOOSE j \in 1..Len(days) : str(days[j]) = key
        IN Some(IF answers[i] = "" THEN "15-21" ELSE answers[i])]

\* parse_schedule_input on the entries of the text (the pieces between commas
\* and line breaks), each entry given as entry.split(), its sequence of
\* tokens: an entry of two or more tokens sets schedule[parts[0]] = parts[1],
\* a later entry replacing an earlier one of the same day
RECURSIVE parse_entries(_, _, _)
parse_entries(entries, i, schedule) ==
    IF i > Len(entries) THEN schedule
    ELSE LET parts == entries[i]
         IN IF Len(parts) >= 2
            THEN parse_entries(entries, i + 1,
                               (parts[1] :> Some(parts[2])) @@ schedule)
            ELSE parse_entries(entries, i + 1, schedule)

parse_schedule_input(entries) == parse_entries(entries, 1, << >>)

\* schedule lines typed by the user: a line without hours, a key "05", a day
\* entered twice, a third token
LinesA == << <<"1", "15-21">>, <<"2">>, <<"05", "9-12">>, <<"6", "17-22">>,
             <<"28", "15-21">>, <<"30", "17-21">> >>
LinesB == << <<"1", "15-21">>, <<"1", "17-22", "late">>, <<"31", "10-18">> >>
ScheduleLinesInputs == {LinesA, LinesB}

\* answers to the holiday prompts: the confirmation, and the list entered
\* (already split and converted; << >> is the empty answer)
ConfirmInputs == {"", "n"}
HolidayListInputs == {<< >>, <<7, 8>>}

\* lines 148-163: the detected holidays, confirmed or replaced
ask_holidays(y, m, confirm, holiday_input) ==
    IF get_holidays(y, m) # << >>
    THEN (IF confirm = "n" THEN holiday_input ELSE get_holidays(y, m))
    ELSE (IF holiday_input # << >> THEN holiday_input ELSE get_holidays(y, m))

\* the bottom text written by interactive_create, as code points
CreateBottomText ==
    <<12372, 20104, 32004, 12399, 32, 48, 53, 53, 45, 57, 53, 55, 45, 52,
      53, 48, 48, 32, 47, 32, 48, 55, 48, 45, 56, 52, 49, 57, 45, 53, 52,
      56, 57, 32, 12395, 12390, 25215, 12426, 12414, 12377>>

\* the keys of DEFAULT_CONFIG that the composer reads (font paths left out)
DEFAULT_CONFIG ==
    "year" :> 2026 @@ "month" :> 3
    @@ "schedule" :>
           [key \in {"1", "2", "6", "7", "8", "9", "13", "14", "15", "16",
                     "20", "21", "22", "23", "27", "28", "29", "30"} |->
               Some(IF key \in {"2", "9", "16", "23", "30"} THEN "17-21"
                    ELSE IF key \in {"6", "13", "20", "27"} THEN "17-22"
                    ELSE "15-21")]
    @@ "prev_month_schedule" :> ("28" :> Some("15-21"))
    @@ "next_month_schedule" :> ("4" :> Some("15-21") @@ "5" :> Some("15-21"))
    @@ "holidays" :> <<20>>
    @@ "prev_month_holidays" :> << >>
    @@ "next_month_holidays" :> << >>
    @@ "bottom_text" :> CreateBottomText
    @@ "output_filename" :> ""

\* load_config on an existing file: DEFAULT_CONFIG updated by the file's keys
load_config(user_config) == user_config @@ DEFAULT_CONFIG

\* the dict written to config.json by interactive_create and quick_create
created_config(y, m, schedule, prev_schedule, next_schedule, holidays) ==
    "year" :> y @@ "month" :> m @@ "schedule" :> schedule
    @@ "prev_month_schedule" :> prev_schedule
    @@ "next_month_schedule" :> next_schedule
    @@ "holidays" :> holidays
    @@ "prev_month_holidays" :> << >>
    @@ "next_month_holidays" :> << >>
    @@ "bottom_text" :> CreateBottomText
    @@ "output_filename" :>
           ("calendar_" \o str(y) \o "_" \o month_02d(m) \o ".png")

\* --- interactive_create followed by generate_calendar ---
InitCreate ==
    /\ pc = "create_start"
    /\ year \in Years /\ month \in Months
    /\ config = << >> /\ weeks = << >>
    /\ show_prev_weekends = FALSE /\ show_next_weekends = FALSE
    /\ row_height = <<0, 1>> /\ row_idx = 0 /\ event_idx = 0
    /\ drawn = {} /\ boxes = {} /\ bottom = None /\ output = ""
    /\ event = << >> /\ positions = << >> /\ text = << >> /\ segments = << >>

\* the prompts of interactive_create, config.json written and loaded again
CreateConfig ==
    /\ pc = "create_start"
    /\ \E lines \in ScheduleLinesInputs,
          confirm \in ConfirmInputs,
          holiday_input \in HolidayListInputs,
          pa \in [1..Len(prev_weekend_days(year, month)) -> HoursInputs],
          na \in [1..Len(next_weekend_days(year, month)) -> HoursInputs] :
          config' = load_config(
              created_config(year, month, parse_schedule_input(lines),
                  collect_hours(prev_weekend_days(year, month), pa),
                  collect_hours(next_weekend_days(year, month), na),
                  ask_holidays(year, month, confirm, holiday_input)))
    /\ pc' = "start"
    /\ UNCHANGED <<year, month, weeks, show_prev_weekends, show_next_weekends,
                   row_height, row_idx, event_idx, drawn, boxes, bottom,
                   output, event, positions, text, segments>>

NextCreate == CreateConfig \/ Setup \/ DrawRow \/ DrawBottom \/ Save

SpecCreate == InitCreate /\ [][NextCreate]_vars

\* --- quick_create(year, month, schedule_text) followed by
\* --- generate_calendar ---
InitQuick ==
    /\ pc = "quick_start"
    /\ year \in Years /\ month \in Months
    /\ config = << >> /\ weeks = << >>
    /\ show_prev_weekends = FALSE /\ show_next_weekends = FALSE
    /\ row_height = <<0, 1>> /\ row_idx = 0 /\ event_idx = 0
    /\ drawn = {} /\ boxes = {} /\ bottom = None /\ output = ""
    /\ event = << >> /\ positions = << >> /\ text = << >> /\ segments = << >>

\* no adjacent-month hours, the detected holidays
QuickConfig ==
    /\ pc = "quick_start"
    /\ \E lines \in ScheduleLinesInputs \cup {<< >>} :
          config' = load_config(
              created_config(year, month, parse_schedule_input(lines),
                             << >>, << >>, get_holidays(year, month)))
    /\ pc' = "start"
    /\ UNCHANGED <<year, month, weeks, show_prev_weekends, show_next_weekends,
                   row_height, row_idx, event_idx, drawn, boxes, bottom,
                   output, event, positions, text, segments>>

NextQuick == QuickConfig \/ Setup \/ DrawRow \/ DrawBottom \/ Save

SpecQuick == InitQuick /\ [][NextQuick]_vars

\* day numbers drawn for the cells of one adjacent month
RenderedDays(month_offset) ==
    {op.text : op \in {o \in drawn : o.kind = "date"
                                     /\ CellOf(o)[2] = month_offset}}

\* C14: the adjacent-month weekend days that interactive_create announces
\* and stores hours for are exactly the previous-/next-month cells that
\* generate_calendar renders.
C14_CollectedDaysAreRendered ==
    pc = "done" =>
        /\ DOMAIN config["prev_month_schedule"] = RenderedDays(-1)
        /\ DOMAIN config["next_month_schedule"] = RenderedDays(1)

\* the half of C14 that the code keeps: every rendered adjacent-month cell
\* has a collected entry
C14_RenderedDaysAreCollected ==
    pc = "done" =>
        /\ RenderedDays(-1) \subseteq DOMAIN config["prev_month_schedule"]
        /\ RenderedDays(1) \subseteq DOMAIN config["next_month_schedule"]

====
